---- MODULE Spec2Model ----
(***************************************************************************)
(* Tracking-id allocation and renumbering of adapt-authoring-spoortracking *)
(* (src/lib/SpoorTrackingModule.js).  The document store behind the        *)
(* content module is the shared state; every invocation of                 *)
(* insertTrackingId or resetCourseTrackingIds is a process whose awaits    *)
(* are the points where other invocations and the store may act.           *)
(* The request handler resetTrackingHandler and the counter variant of the *)
(* module (insertTrackingId on _latestTrackingId, resetTrackingIds) are    *)
(* modelled beside them.                                                   *)
(***************************************************************************)
EXTENDS Integers, Sequences, FiniteSets, TLC

\* ------------------------------------------------------------------ bounds
MaxProcs == 2       \* invocations that may be in flight together
MaxInit == 2        \* documents in the store when the module starts
MaxTid == 2         \* largest _trackingId a document or a request carries

MaxDocs == MaxInit + 1          \* capacity of the store in the model
MaxCounter == MaxTid + MaxDocs  \* largest _latestTrackingId in the model
Procs == 1..MaxProcs
SeqProcs == {1}                 \* one invocation at a time
Courses == {"c1", "c2"}
Types == {"block", "component"}
Errors == {"E1", "E2"}          \* errors the store may throw
NoError == "none"

\* ------------------------------------------------- values of _trackingId
\* A JavaScript value of the _trackingId field: an integer v, the number
\* v + 1/2, the string of the decimal digits of v, null, or undefined.
Undefined == [k |-> "undefined", v |-> 0]
Null == [k |-> "null", v |-> 0]
Integer(n) == [k |-> "int", v |-> n]
Fraction(n) == [k |-> "frac", v |-> n]
String(n) == [k |-> "str", v |-> n]

\* What the documents of the store carry: an integer, or nothing.
StoredTids == {Undefined} \cup {Integer(n) : n \in 0..MaxTid}
\* What a document handed to the pre-insert hook may carry.
InputTids == {Undefined, Null, Fraction(1), String(5), Integer(-1)}
                \cup {Integer(n) : n \in 0..MaxTid}
FreshTids == {Undefined, Null}

Doc(t, c, tid) == [course |-> c, tid |-> tid, type |-> t]
NoData == Doc("none", "none", Undefined)
StoredDocs == {Doc(t, c, tid) : t \in Types, c \in Courses, tid \in StoredTids}
InputDocs == {Doc(t, c, tid) : t \in Types, c \in Courses, tid \in InputTids}
FreshBlocks == {Doc("block", c, tid) : c \in Courses, tid \in FreshTids}

SeqsUpTo(S, n) == UNION {[1..k -> S] : k \in 0..n}

\* ------------------------------------------------------------- JavaScript
\* Number.isInteger(x)
NumberIsInteger(t) == t.k = "int"

\* x ?? d
Coalesce(t, d) == IF t.k \in {"undefined", "null"} THEN d ELSE t

\* x + 1: numeric addition, or concatenation when x is a string
PlusOne(t) ==
    CASE t.k = "int" -> Integer(t.v + 1)
      [] t.k = "frac" -> Fraction(t.v + 1)
      [] t.k = "str" -> String(10 * t.v + 1)
      [] OTHER -> Undefined    \* NaN: unreachable after ??

\* --------------------------------------------------------- document store
\* The sort order of the store on a field: a missing or null field sorts
\* before every number, numbers by value (2v and 2v+1 compare the integer v
\* and the fraction v + 1/2), strings after every number; documents with
\* equal keys come in no guaranteed order.
Rank(t) == CASE t.k \in {"undefined", "null"} -> 0
             [] t.k \in {"int", "frac"} -> 1
             [] OTHER -> 2
Twice(t) == IF t.k = "frac" THEN 2 * t.v + 1 ELSE 2 * t.v
KeyLess(a, b) == \/ Rank(a) < Rank(b)
                 \/ Rank(a) = Rank(b) /\ Rank(a) > 0 /\ Twice(a) < Twice(b)
KeyLeq(a, b) == ~KeyLess(b, a)

Perms(ids) == {l \in [1..Cardinality(ids) -> ids] :
                 \A i, j \in DOMAIN l : i # j => l[i] # l[j]}

\* The listings find may return for the documents ids of store s sorted on
\* _trackingId in direction dir (1 ascending, -1 descending): sequences of
\* _id values.
Sorted(s, ids, dir) ==
    {l \in Perms(ids) : \A i \in 1..(Len(l) - 1) :
        IF dir = 1 THEN KeyLeq(s[l[i]].tid, s[l[i + 1]].tid)
                   ELSE KeyLeq(s[l[i + 1]].tid, s[l[i]].tid)}

CourseIds(s, c) == {i \in DOMAIN s : s[i].course = c}
BlockIds(s, c) == {i \in DOMAIN s : s[i].type = "block" /\ s[i].course = c}

Limit(l, n) == IF Len(l) <= n THEN l ELSE SubSeq(l, 1, n)

\* ------------------------------------------------------------------ state
VARIABLES
    store,      \* the content collection: documents in insertion order, _id = index
    pc,         \* where each invocation stands
    arg,        \* insertTrackingId: the data as the caller passed it
    data,       \* insertTrackingId: the data object, mutated in place
    course,     \* resetCourseTrackingIds: the _courseId argument
    blocks,     \* resetCourseTrackingIds: the listing find returned (_id values)
    pending,    \* resetCourseTrackingIds: positions whose update is in flight
    err,        \* the error the invocation rejected with
    thrown,     \* what the store threw at this invocation, in order:
                \* [call |-> "find" or "update", error |-> the error]
    before,     \* the store as it was when the invocation began
    nfind,      \* content.find calls this invocation issued
    nupdate,    \* content.update calls this invocation issued
    logged,     \* resetCourseTrackingIds: the RESET line was logged
    req,        \* resetTrackingHandler: req.params._courseId, "none" when the
                \* invocation is not a request
    res,        \* resetTrackingHandler: the calls made on res and next, in order:
                \* [call |-> "sendStatus" or "next", arg |-> the argument]
    latest,     \* counter variant: _latestTrackingId of each course document,
                \* 0 while the field is missing
    courseTid,  \* counter variant: _trackingId of each course document
    ready       \* counter variant: init has set this.content and this.db

vars == <<store, pc, arg, data, course, blocks, pending, err, thrown, before,
          nfind, nupdate, logged, req, res, latest, courseTid, ready>>
insertVars == <<arg, data>>
resetVars == <<course, blocks, pending, logged>>
handlerVars == <<req, res>>
counterVars == <<latest, courseTid, ready>>
NoCounters == [c \in Courses |-> 0]

Idle(p) == pc[p] = "idle"
Thrown(c, e) == [call |-> c, error |-> e]

\* Documents that invocations in flight will still add to the store.
Arriving == Cardinality({p \in Procs : pc[p] \in {"ins_find", "ins_inc", "ins_ret"}})

InitFrom(stores, counters, readies) ==
    /\ store \in stores
    /\ latest \in counters
    /\ courseTid = [c \in Courses |-> Undefined]
    /\ ready \in readies
    /\ pc = [p \in Procs |-> "idle"]
    /\ arg = [p \in Procs |-> NoData]
    /\ data = [p \in Procs |-> NoData]
    /\ course = [p \in Procs |-> "none"]
    /\ blocks = [p \in Procs |-> <<>>]
    /\ pending = [p \in Procs |-> {}]
    /\ err = [p \in Procs |-> NoError]
    /\ thrown = [p \in Procs |-> <<>>]
    /\ before = [p \in Procs |-> <<>>]
    /\ nfind = [p \in Procs |-> 0]
    /\ nupdate = [p \in Procs |-> 0]
    /\ logged = [p \in Procs |-> FALSE]
    /\ req = [p \in Procs |-> "none"]
    /\ res = [p \in Procs |-> <<>>]

InitWith(stores) == InitFrom(stores, {NoCounters}, {TRUE})

\* The invocation is over: its slot is free for the next one.
Forget(p) ==
    /\ pc' = [pc EXCEPT ![p] = "idle"]
    /\ arg' = [arg EXCEPT ![p] = NoData]
    /\ data' = [data EXCEPT ![p] = NoData]
    /\ course' = [course EXCEPT ![p] = "none"]
    /\ blocks' = [blocks EXCEPT ![p] = <<>>]
    /\ pending' = [pending EXCEPT ![p] = {}]
    /\ err' = [err EXCEPT ![p] = NoError]
    /\ thrown' = [thrown EXCEPT ![p] = <<>>]
    /\ before' = [before EXCEPT ![p] = <<>>]
    /\ nfind' = [nfind EXCEPT ![p] = 0]
    /\ nupdate' = [nupdate EXCEPT ![p] = 0]
    /\ logged' = [logged EXCEPT ![p] = FALSE]
    /\ req' = [req EXCEPT ![p] = "none"]
    /\ res' = [res EXCEPT ![p] = <<>>]

\* ------------------------------------------------------- insertTrackingId
\* JavaScript truthiness of a _trackingId value
Truthy(t) == CASE t.k \in {"undefined", "null"} -> FALSE
               [] t.k = "int" -> t.v # 0
               [] OTHER -> TRUE

\* Variant: the guard tests the id for truthiness, so 0 counts as unassigned.
SkipsTruthy(d) == d.type # "block" \/ Truthy(d.tid)

\* Variant: the guard does not look at the type.
SkipsAnyType(d) == NumberIsInteger(d.tid)

\* if (data._type !== 'block' || Number.isInteger(data._trackingId)) return
Skips(d) == d.type # "block" \/ NumberIsInteger(d.tid)

\* Variant: the query asks for blocks only, so an id carried by another
\* document of the course is not seen.
InsertQueryBlocksOnly(s, c) == {Limit(l, 1) : l \in Sorted(s, BlockIds(s, c), -1)}

\* Variant: the query leaves out _courseId, so the highest id of the whole
\* collection comes first.
InsertQueryAnyCourse(s, c) == {Limit(l, 1) : l \in Sorted(s, DOMAIN s, -1)}

\* Variant: the query sorts ascending, so the lowest id comes first.
InsertQueryAscending(s, c) == {Limit(l, 1) : l \in Sorted(s, CourseIds(s, c), 1)}

\* content.find({ _courseId }, {}, { limit: 1, sort: [['_trackingId', -1]] })
InsertQuery(s, c) == {Limit(l, 1) : l \in Sorted(s, CourseIds(s, c), -1)}

\* const [{ _trackingId } = {}] = result
FirstTrackingId(s, l) == IF l = <<>> THEN Undefined ELSE s[l[1]].tid

\* (_trackingId ?? 0) + 1
NextTrackingId(t) == PlusOne(Coalesce(t, Integer(0)))

\* The call up to its first await: the guard, then the wait for the content
\* module.
insertTrackingId(p, d) ==
    /\ Idle(p)
    /\ Len(store) + Arriving < MaxDocs
    /\ pc' = [pc EXCEPT ![p] = IF Skips(d) THEN "ins_ret" ELSE "ins_find"]
    /\ arg' = [arg EXCEPT ![p] = d]
    /\ data' = [data EXCEPT ![p] = d]
    /\ before' = [before EXCEPT ![p] = store]
    /\ UNCHANGED <<handlerVars, counterVars, store, resetVars, err, thrown, nfind, nupdate>>

\* The find resolves and the continuation sets data._trackingId.
InsertFind(p) ==
    /\ pc[p] = "ins_find"
    /\ \E l \in InsertQuery(store, data[p].course) :
          data' = [data EXCEPT ![p].tid = NextTrackingId(FirstTrackingId(store, l))]
    /\ nfind' = [nfind EXCEPT ![p] = @ + 1]
    /\ pc' = [pc EXCEPT ![p] = "ins_ret"]
    /\ UNCHANGED <<handlerVars, counterVars, store, arg, resetVars, err, thrown, before,
                   nupdate>>

\* The find rejects: the error reaches the caller and nothing is assigned.
InsertFindFails(p, e) ==
    /\ pc[p] = "ins_find"
    /\ nfind' = [nfind EXCEPT ![p] = @ + 1]
    /\ thrown' = [thrown EXCEPT ![p] = Append(@, Thrown("find", e))]
    /\ err' = [err EXCEPT ![p] = e]
    /\ pc' = [pc EXCEPT ![p] = "ins_failed"]
    /\ UNCHANGED <<handlerVars, counterVars, store, insertVars, resetVars, before, nupdate>>

\* ------------------------------------- insertTrackingId, counter variant
\* x > -1: undefined converts to NaN, which compares false; null converts
\* to 0; a string of decimal digits converts to its number.
GreaterThanMinusOne(t) ==
    CASE t.k = "undefined" -> FALSE
      [] t.k = "null" -> TRUE
      [] t.k = "int" -> t.v > -1
      [] t.k = "frac" -> 2 * t.v + 1 > -2
      [] OTHER -> TRUE

\* if(data._type !== 'block' || data._trackingId > -1) return
SkipsCounter(d) == d.type # "block" \/ GreaterThanMinusOne(d.tid)

\* Variant: the update sets the counter to 1 instead of incrementing it.
SetLatestTrackingId(n) == 1

\* { $inc: { _latestTrackingId: 1 } }; a missing field counts as 0.
IncLatestTrackingId(n) == n + 1

\* The call up to its await: the guard, then the update is sent.
insertTrackingIdCounter(p, d) ==
    /\ Idle(p)
    /\ Len(store) + Arriving < MaxDocs
    /\ pc' = [pc EXCEPT ![p] = IF SkipsCounter(d) THEN "ins_ret" ELSE "ins_inc"]
    /\ arg' = [arg EXCEPT ![p] = d]
    /\ data' = [data EXCEPT ![p] = d]
    /\ before' = [before EXCEPT ![p] = store]
    /\ UNCHANGED <<handlerVars, counterVars, store, resetVars, err, thrown, nfind,
                   nupdate>>

\* The store increments the counter of the course document and returns the
\* document as updated, in one step; the continuation sets data._trackingId
\* to the counter it returned.
CounterUpdate(p) ==
    /\ pc[p] = "ins_inc"
    /\ latest' = [latest EXCEPT ![data[p].course] = IncLatestTrackingId(@)]
    /\ data' = [data EXCEPT ![p].tid = Integer(latest'[data[p].course])]
    /\ nupdate' = [nupdate EXCEPT ![p] = @ + 1]
    /\ pc' = [pc EXCEPT ![p] = "ins_ret"]
    /\ UNCHANGED <<handlerVars, courseTid, ready, store, arg, resetVars, err, thrown,
                   before, nfind>>

\* What the content module accepts in _trackingId when it writes a document.
Storable(d) == d.tid.k \in {"int", "undefined", "null"}

\* The hook returned: the content module writes the document it was given.
ContentInsert(p) ==
    /\ pc[p] = "ins_ret"
    /\ Storable(data[p])
    /\ store' = Append(store, data[p])
    /\ UNCHANGED counterVars
    /\ Forget(p)

\* The content module refuses the document.
ContentInsertRefused(p) ==
    /\ pc[p] = "ins_ret"
    /\ ~Storable(data[p])
    /\ UNCHANGED <<store, counterVars>>
    /\ Forget(p)

\* ------------------------------------------------- resetCourseTrackingIds
\* Variant: the query leaves out _type, so every document of the course is
\* listed.
ResetQueryAnyType(s, c) == Sorted(s, CourseIds(s, c), 1)

\* Variant: the listing is sorted descending.
ResetQueryDescending(s, c) == Sorted(s, BlockIds(s, c), -1)

\* content.find({ _type: 'block', _courseId }, {}, { sort: [['_trackingId', 1]] })
ResetQuery(s, c) == Sorted(s, BlockIds(s, c), 1)

\* Variant: the ids start at 2.
NewTrackingIdFromTwo(n) == (n - 1) + 2

\* Variant: the index itself is written, so the ids start at 0.
NewTrackingIdFromZero(n) == n - 1

\* { _trackingId: i + 1 } for the block at index i of the listing; the
\* model's sequences count from 1, so position n is index n - 1.
NewTrackingId(n) == (n - 1) + 1

\* Variant: every rejection replaces the one before it.
LastRejection(old, e) == e

\* Promise.all settles once: the first rejection is the one it rejects with.
Rejection(old, e) == IF old = NoError THEN e ELSE old

resetCourseTrackingIds(p, c) ==
    /\ Idle(p)
    /\ pc' = [pc EXCEPT ![p] = "rst_find"]
    /\ course' = [course EXCEPT ![p] = c]
    /\ before' = [before EXCEPT ![p] = store]
    /\ UNCHANGED <<handlerVars, counterVars, store, insertVars, blocks, pending, logged,
                   err, thrown, nfind, nupdate>>

\* The listing resolves and blocks.map issues one update per block; with no
\* block Promise.all resolves at once and the RESET line is logged.
ResetFind(p) ==
    /\ pc[p] = "rst_find"
    /\ \E l \in ResetQuery(store, course[p]) :
          /\ blocks' = [blocks EXCEPT ![p] = l]
          /\ pending' = [pending EXCEPT ![p] = 1..Len(l)]
          /\ nupdate' = [nupdate EXCEPT ![p] = @ + Len(l)]
          /\ pc' = [pc EXCEPT ![p] = IF l = <<>> THEN "rst_ok" ELSE "rst_wait"]
          /\ logged' = [logged EXCEPT ![p] = (l = <<>>)]
    /\ nfind' = [nfind EXCEPT ![p] = @ + 1]
    /\ UNCHANGED <<handlerVars, counterVars, store, insertVars, course, err, thrown, before>>

\* Variant: the error of the listing is swallowed and the listing taken as
\* empty, so the call resolves.
ResetFindFailsSwallowed(p, e) ==
    /\ pc[p] = "rst_find"
    /\ nfind' = [nfind EXCEPT ![p] = @ + 1]
    /\ thrown' = [thrown EXCEPT ![p] = Append(@, Thrown("find", e))]
    /\ pc' = [pc EXCEPT ![p] = "rst_ok"]
    /\ logged' = [logged EXCEPT ![p] = TRUE]
    /\ UNCHANGED <<handlerVars, counterVars, store, insertVars, course, blocks, pending, err,
                   before, nupdate>>

\* The listing rejects: the call rejects with that error, no update issued.
ResetFindFails(p, e) ==
    /\ pc[p] = "rst_find"
    /\ nfind' = [nfind EXCEPT ![p] = @ + 1]
    /\ thrown' = [thrown EXCEPT ![p] = Append(@, Thrown("find", e))]
    /\ err' = [err EXCEPT ![p] = e]
    /\ pc' = [pc EXCEPT ![p] = "rst_failed"]
    /\ UNCHANGED <<handlerVars, counterVars, store, insertVars, resetVars, before, nupdate>>

\* Variant: the update addresses the document by the position in the listing
\* instead of the block's _id.
ContentUpdateByPosition(p, n) ==
    /\ n \in pending[p]
    /\ store' = [store EXCEPT ![n].tid = Integer(NewTrackingId(n))]
    /\ pending' = [pending EXCEPT ![p] = @ \ {n}]
    /\ LET last == pending[p] = {n} /\ err[p] = NoError
       IN /\ pc' = [pc EXCEPT ![p] = IF last THEN "rst_ok" ELSE @]
          /\ logged' = [logged EXCEPT ![p] = last]
    /\ UNCHANGED <<handlerVars, counterVars, insertVars, course, blocks, err, thrown, before,
                   nfind, nupdate>>

\* The update of the block at position n reaches the store; the last one to
\* do so, when none failed, resolves Promise.all and the call logs RESET.
ContentUpdate(p, n) ==
    /\ n \in pending[p]
    /\ store' = [store EXCEPT ![blocks[p][n]].tid = Integer(NewTrackingId(n))]
    /\ pending' = [pending EXCEPT ![p] = @ \ {n}]
    /\ LET last == pending[p] = {n} /\ err[p] = NoError
       IN /\ pc' = [pc EXCEPT ![p] = IF last THEN "rst_ok" ELSE @]
          /\ logged' = [logged EXCEPT ![p] = last]
    /\ UNCHANGED <<handlerVars, counterVars, insertVars, course, blocks, err, thrown, before,
                   nfind, nupdate>>

\* The update of the block at position n rejects with e: the document is
\* not written, and Promise.all rejects unless it already has.
ContentUpdateFails(p, n, e) ==
    /\ n \in pending[p]
    /\ pending' = [pending EXCEPT ![p] = @ \ {n}]
    /\ thrown' = [thrown EXCEPT ![p] = Append(@, Thrown("update", e))]
    /\ err' = [err EXCEPT ![p] = Rejection(@, e)]
    /\ pc' = [pc EXCEPT ![p] = IF @ = "rst_wait" THEN "rst_failed" ELSE @]
    /\ UNCHANGED <<handlerVars, counterVars, store, insertVars, course, blocks, logged, before,
                   nfind, nupdate>>

\* ---------------------------------------------------- resetTrackingHandler
\* What res.sendStatus may throw: the response was sent already.
ResErrors == {"ERR_HTTP_HEADERS_SENT"}
\* What a call on this.content throws while init has not set it.
TypeError == "TypeError"

Status(n) == [arg |-> n, call |-> "sendStatus"]
NextWith(e) == [arg |-> e, call |-> "next"]

\* The request arrives: the handler calls resetCourseTrackingIds with
\* req.params._courseId and awaits it.
resetTrackingHandler(p, c) ==
    /\ Idle(p)
    /\ req' = [req EXCEPT ![p] = c]
    /\ pc' = [pc EXCEPT ![p] = "rst_find"]
    /\ course' = [course EXCEPT ![p] = c]
    /\ before' = [before EXCEPT ![p] = store]
    /\ UNCHANGED <<store, insertVars, blocks, pending, logged, err, thrown,
                   nfind, nupdate, res, counterVars>>

\* The awaited call resolved: res.sendStatus(204)
HandlerSendStatus(p) ==
    /\ req[p] # "none"
    /\ pc[p] = "rst_ok"
    /\ res' = [res EXCEPT ![p] = Append(@, Status(204))]
    /\ pc' = [pc EXCEPT ![p] = "hdl_sent"]
    /\ UNCHANGED <<store, insertVars, resetVars, err, thrown, before, nfind,
                   nupdate, req, counterVars>>

\* The awaited call resolved and res.sendStatus(204), called inside the try
\* block, throws e: the catch block passes e to next, after the call on res.
HandlerSendStatusThrows(p, e) ==
    /\ req[p] # "none"
    /\ pc[p] = "rst_ok"
    /\ res' = [res EXCEPT ![p] = Append(Append(@, Status(204)), NextWith(e))]
    /\ pc' = [pc EXCEPT ![p] = "hdl_next"]
    /\ UNCHANGED <<store, insertVars, resetVars, err, thrown, before, nfind,
                   nupdate, req, counterVars>>

\* The awaited call rejected: catch (e) { return next(e) }
HandlerCatch(p) ==
    /\ req[p] # "none"
    /\ pc[p] = "rst_failed"
    /\ res' = [res EXCEPT ![p] = Append(@, NextWith(err[p]))]
    /\ pc' = [pc EXCEPT ![p] = "hdl_next"]
    /\ UNCHANGED <<store, insertVars, resetVars, err, thrown, before, nfind,
                   nupdate, req, counterVars>>

\* ------------------------------------------ resetTrackingIds, two phases
\* The request arrives: the handler sends the update of the course document
\* and awaits it.
resetTrackingIds(p, c) ==
    /\ Idle(p)
    /\ ready
    /\ latest[c] + Cardinality(BlockIds(store, c)) <= MaxCounter
    /\ req' = [req EXCEPT ![p] = c]
    /\ pc' = [pc EXCEPT ![p] = "tp_mark"]
    /\ course' = [course EXCEPT ![p] = c]
    /\ before' = [before EXCEPT ![p] = store]
    /\ UNCHANGED <<store, counterVars, insertVars, blocks, pending, logged, err,
                   thrown, nfind, nupdate, res>>

\* init awaits the content and mongodb modules after it has started
\* initRoutes without awaiting it, then sets this.content and this.db.
InitContent ==
    /\ ~ready
    /\ ready' = TRUE
    /\ UNCHANGED <<store, pc, insertVars, resetVars, err, thrown, before, nfind,
                   nupdate, handlerVars, latest, courseTid>>

\* The request arrives while this.content is not set: this.content.update
\* throws a TypeError inside the try block and the catch passes it to next.
resetTrackingIdsEarly(p, c) ==
    /\ Idle(p)
    /\ ~ready
    /\ req' = [req EXCEPT ![p] = c]
    /\ course' = [course EXCEPT ![p] = c]
    /\ before' = [before EXCEPT ![p] = store]
    /\ err' = [err EXCEPT ![p] = TypeError]
    /\ res' = [res EXCEPT ![p] = Append(@, NextWith(TypeError))]
    /\ pc' = [pc EXCEPT ![p] = "hdl_next"]
    /\ UNCHANGED <<store, counterVars, insertVars, blocks, pending, logged,
                   thrown, nfind, nupdate>>

\* content.update({ _id: req.params._courseId }, { _trackingId: -1 }): the
\* document whose _id is the course id, the course itself, gets -1.
MarkCourse(p) ==
    /\ pc[p] = "tp_mark"
    /\ courseTid' = [courseTid EXCEPT ![course[p]] = Integer(-1)]
    /\ nupdate' = [nupdate EXCEPT ![p] = @ + 1]
    /\ pc' = [pc EXCEPT ![p] = "tp_find"]
    /\ UNCHANGED <<store, latest, ready, insertVars, resetVars, err, thrown, before,
                   nfind, handlerVars>>

\* That update rejects: catch (e) { return next(e) }
MarkCourseFails(p, e) ==
    /\ pc[p] = "tp_mark"
    /\ nupdate' = [nupdate EXCEPT ![p] = @ + 1]
    /\ thrown' = [thrown EXCEPT ![p] = Append(@, Thrown("update", e))]
    /\ err' = [err EXCEPT ![p] = e]
    /\ res' = [res EXCEPT ![p] = Append(@, NextWith(e))]
    /\ pc' = [pc EXCEPT ![p] = "hdl_next"]
    /\ UNCHANGED <<store, counterVars, insertVars, resetVars, before, nfind, req>>

\* content.find({ _type: 'block', _courseId }): no sort is asked for, the
\* blocks come in any order.
TwoPhaseFind(p) ==
    /\ pc[p] = "tp_find"
    /\ \E l \in Perms(BlockIds(store, course[p])) :
          /\ blocks' = [blocks EXCEPT ![p] = l]
          /\ pending' = [pending EXCEPT ![p] = 1..Len(l)]
    /\ nfind' = [nfind EXCEPT ![p] = @ + 1]
    /\ pc' = [pc EXCEPT ![p] = "tp_loop"]
    /\ UNCHANGED <<store, counterVars, insertVars, course, logged, err, thrown,
                   before, nupdate, handlerVars>>

\* The listing rejects: catch (e) { return next(e) }
TwoPhaseFindFails(p, e) ==
    /\ pc[p] = "tp_find"
    /\ nfind' = [nfind EXCEPT ![p] = @ + 1]
    /\ thrown' = [thrown EXCEPT ![p] = Append(@, Thrown("find", e))]
    /\ err' = [err EXCEPT ![p] = e]
    /\ res' = [res EXCEPT ![p] = Append(@, NextWith(e))]
    /\ pc' = [pc EXCEPT ![p] = "hdl_next"]
    /\ UNCHANGED <<store, counterVars, insertVars, resetVars, before, nupdate, req>>

\* One turn of for (const b of blocks) await this.insertTrackingId(b): b is
\* the listed document, which with one request at a time is the stored one;
\* the call returns at its guard or sets b._trackingId, on the listed object
\* only, to the incremented counter.  Nothing is written to a block.
TwoPhaseAllocate(p) ==
    /\ pc[p] = "tp_loop"
    /\ pending[p] # {}
    /\ LET n == CHOOSE k \in pending[p] : \A m \in pending[p] : k <= m
           b == store[blocks[p][n]]
       IN /\ pending' = [pending EXCEPT ![p] = @ \ {n}]
          /\ arg' = [arg EXCEPT ![p] = b]
          /\ IF SkipsCounter(b)
             THEN /\ data' = [data EXCEPT ![p] = b]
                  /\ UNCHANGED <<latest, nupdate>>
             ELSE /\ latest' = [latest EXCEPT ![b.course] = IncLatestTrackingId(@)]
                  /\ data' = [data EXCEPT ![p] = [b EXCEPT !.tid = Integer(latest'[b.course])]]
                  /\ nupdate' = [nupdate EXCEPT ![p] = @ + 1]
    /\ UNCHANGED <<store, courseTid, ready, course, blocks, logged, err, thrown, before,
                   nfind, pc, handlerVars>>

\* The $inc update of a turn rejects with e: the counter is not incremented,
\* insertTrackingId rejects, the loop is left and the catch passes e to next.
TwoPhaseAllocateFails(p, e) ==
    /\ pc[p] = "tp_loop"
    /\ pending[p] # {}
    /\ LET n == CHOOSE k \in pending[p] : \A m \in pending[p] : k <= m
           b == store[blocks[p][n]]
       IN /\ ~SkipsCounter(b)
          /\ arg' = [arg EXCEPT ![p] = b]
          /\ data' = [data EXCEPT ![p] = b]
    /\ pending' = [pending EXCEPT ![p] = {}]
    /\ nupdate' = [nupdate EXCEPT ![p] = @ + 1]
    /\ thrown' = [thrown EXCEPT ![p] = Append(@, Thrown("update", e))]
    /\ err' = [err EXCEPT ![p] = e]
    /\ res' = [res EXCEPT ![p] = Append(@, NextWith(e))]
    /\ pc' = [pc EXCEPT ![p] = "hdl_next"]
    /\ UNCHANGED <<store, counterVars, course, blocks, logged, before, nfind, req>>

\* The loop is over and res.sendStatus(204) throws e: the catch passes e to
\* next, after the call on res.
TwoPhaseSendStatusThrows(p, e) ==
    /\ pc[p] = "tp_loop"
    /\ pending[p] = {}
    /\ res' = [res EXCEPT ![p] = Append(Append(@, Status(204)), NextWith(e))]
    /\ pc' = [pc EXCEPT ![p] = "hdl_next"]
    /\ UNCHANGED <<store, counterVars, insertVars, resetVars, err, thrown, before,
                   nfind, nupdate, req>>

\* The loop is over: res.sendStatus(204)
TwoPhaseSendStatus(p) ==
    /\ pc[p] = "tp_loop"
    /\ pending[p] = {}
    /\ res' = [res EXCEPT ![p] = Append(@, Status(204))]
    /\ pc' = [pc EXCEPT ![p] = "hdl_sent"]
    /\ UNCHANGED <<store, counterVars, insertVars, resetVars, err, thrown, before,
                   nfind, nupdate, req>>

\* The caller has the outcome and every update has settled; a request is
\* over when its handler has returned.
Return(p) ==
    /\ \/ req[p] = "none" /\ pc[p] \in {"ins_failed", "rst_ok", "rst_failed"}
       \/ pc[p] \in {"hdl_sent", "hdl_next"}
    /\ pending[p] = {}
    /\ UNCHANGED <<store, counterVars>>
    /\ Forget(p)

\* --------------------------------------------------------- specifications
Init == InitWith(SeqsUpTo(StoredDocs, MaxInit))

\* One operation at a time on any store: blocks that arrive without a
\* _trackingId pass the hook and are written, courses are reset, and the
\* store may throw at any call.
Next ==
    \E p \in SeqProcs :
        \/ \E d \in FreshBlocks : insertTrackingId(p, d)
        \/ InsertFind(p)
        \/ \E e \in Errors : InsertFindFails(p, e)
        \/ ContentInsert(p)
        \/ \E c \in Courses : resetCourseTrackingIds(p, c)
        \/ ResetFind(p)
        \/ \E e \in Errors : ResetFindFails(p, e)
        \/ \E n \in pending[p] : ContentUpdate(p, n)
        \/ \E n \in pending[p], e \in Errors : ContentUpdateFails(p, n, e)
        \/ Return(p)

Spec == Init /\ [][Next]_vars

\* The allocator alone, one call at a time, on any store and with any
\* document the hook may be handed.
NextInsert ==
    \E p \in SeqProcs :
        \/ \E d \in InputDocs : insertTrackingId(p, d)
        \/ InsertFind(p)
        \/ \E e \in Errors : InsertFindFails(p, e)
        \/ ContentInsert(p)
        \/ ContentInsertRefused(p)
        \/ Return(p)

SpecInsert == Init /\ [][NextInsert]_vars

\* The renumberer alone, one call at a time, on any store of blocks with or
\* without ids and of components, which the listing leaves out whatever
\* they carry.
ResetDocs == {d \in StoredDocs : d.type = "block" \/ d.tid = Undefined}

InitReset == InitWith(SeqsUpTo(ResetDocs, MaxDocs))

NextReset ==
    \E p \in SeqProcs :
        \/ \E c \in Courses : resetCourseTrackingIds(p, c)
        \/ ResetFind(p)
        \/ \E e \in Errors : ResetFindFails(p, e)
        \/ \E n \in pending[p] : ContentUpdate(p, n)
        \/ \E n \in pending[p], e \in Errors : ContentUpdateFails(p, n, e)
        \/ Return(p)

SpecReset == InitReset /\ [][NextReset]_vars

\* The allocator on courses that start with no block, handed blocks that
\* carry no _trackingId, one call at a time.  A course without blocks may
\* hold other documents, which the hook lets through with whatever
\* _trackingId they carry.
NoBlockDocs == {d \in StoredDocs : d.type # "block"}

InitNoBlocks == InitWith(SeqsUpTo(NoBlockDocs, MaxInit))

NextFresh ==
    \E p \in SeqProcs :
        \/ \E d \in FreshBlocks : insertTrackingId(p, d)
        \/ InsertFind(p)
        \/ \E e \in Errors : InsertFindFails(p, e)
        \/ ContentInsert(p)
        \/ Return(p)

SpecFresh == InitNoBlocks /\ [][NextFresh]_vars

\* The renumberer run once, and run again by the caller after it failed and
\* all its updates have settled: the first call keeps its outcome while the
\* second, which meets no store error, runs.
RetryDocs == {Doc("block", "c1", tid) : tid \in StoredTids}

InitRetry == InitWith(SeqsUpTo(RetryDocs, MaxDocs))

\* The caller invokes the operation again for the course of a failed call.
Retry(p) ==
    \E q \in SeqProcs :
        /\ pc[q] = "rst_failed" /\ pending[q] = {}
        /\ \A r \in Procs \ {q} : Idle(r)
        /\ resetCourseTrackingIds(p, course[q])

NextRetry ==
    \/ \E p \in SeqProcs :
          \/ (\A r \in Procs : Idle(r)) /\ resetCourseTrackingIds(p, "c1")
          \/ ResetFind(p)
          \/ \E n \in pending[p], e \in {"E1"} : ContentUpdateFails(p, n, e)
          \/ \E n \in pending[p] : ContentUpdate(p, n)
    \/ \E p \in Procs \ SeqProcs :
          \/ Retry(p)
          \/ ResetFind(p)
          \/ \E n \in pending[p] : ContentUpdate(p, n)

SpecRetry == InitRetry /\ [][NextRetry]_vars

\* Requests to the reset route, one at a time, on any store; the store may
\* throw at the listing and at any update, and res.sendStatus may throw.
NextHandler ==
    \E p \in SeqProcs :
        \/ \E c \in Courses : resetTrackingHandler(p, c)
        \/ ResetFind(p)
        \/ \E e \in Errors : ResetFindFails(p, e)
        \/ \E n \in pending[p] : ContentUpdate(p, n)
        \/ \E n \in pending[p], e \in Errors : ContentUpdateFails(p, n, e)
        \/ HandlerSendStatus(p)
        \/ \E e \in ResErrors : HandlerSendStatusThrows(p, e)
        \/ HandlerCatch(p)
        \/ Return(p)

SpecHandler == Init /\ [][NextHandler]_vars

\* Operations on two courses in flight together: the first invocation works
\* on one course, the others on the other; each inserts blocks that carry no
\* _trackingId and resets its course, and the awaits of the two interleave
\* freely.
Home(p) == IF p \in SeqProcs THEN "c1" ELSE "c2"

\* Two invocations in flight together.
Both == {1, 2}

InitCourses == InitWith(SeqsUpTo(ResetDocs, MaxInit))

NextCourses ==
    \E p \in Both :
        \/ \E tid \in FreshTids : insertTrackingId(p, Doc("block", Home(p), tid))
        \/ InsertFind(p)
        \/ ContentInsert(p)
        \/ resetCourseTrackingIds(p, Home(p))
        \/ ResetFind(p)
        \/ \E n \in pending[p] : ContentUpdate(p, n)
        \/ Return(p)

SpecCourses == InitCourses /\ [][NextCourses]_vars

\* Two insertions in flight together: each is a block without a _trackingId
\* that passes the hook and is then written by the content module.
NextInserts ==
    \E p \in Both :
        \/ \E d \in FreshBlocks : insertTrackingId(p, d)
        \/ InsertFind(p)
        \/ ContentInsert(p)

SpecInserts == Init /\ [][NextInserts]_vars

\* The counter variant of the allocator, any number of insertions in flight
\* together, on courses that start without blocks and with any counter; the
\* blocks carry no _trackingId, null, or the sentinel -1.
CounterTids == FreshTids \cup {Integer(-1)}

InitCounter == InitFrom({<<>>}, [Courses -> 0..MaxTid], {TRUE})

NextCounter ==
    \E p \in Procs :
        \/ \E c \in Courses, tid \in CounterTids :
              insertTrackingIdCounter(p, Doc("block", c, tid))
        \/ CounterUpdate(p)
        \/ ContentInsert(p)

SpecCounter == InitCounter /\ [][NextCounter]_vars

\* Two resets of the same course in flight together, their listings and
\* updates interleaving freely; the store does not throw.
InitResets == InitWith(SeqsUpTo(RetryDocs, MaxInit))

NextResets ==
    \E p \in Both :
        \/ resetCourseTrackingIds(p, "c1")
        \/ ResetFind(p)
        \/ \E n \in pending[p] : ContentUpdate(p, n)

SpecResets == InitResets /\ [][NextResets]_vars

\* Requests to the reset route of the counter variant, one at a time, on any
\* store, from before init has set this.content; the store may throw at any
\* call and res.sendStatus may throw.
InitTwoPhase ==
    InitFrom(SeqsUpTo(StoredDocs, MaxInit), [Courses -> {0, MaxTid}], {FALSE})

NextTwoPhase ==
    \/ InitContent
    \/ \E p \in SeqProcs :
          \/ \E c \in Courses : resetTrackingIdsEarly(p, c)
          \/ \E c \in Courses : resetTrackingIds(p, c)
          \/ MarkCourse(p)
          \/ \E e \in Errors : MarkCourseFails(p, e)
          \/ TwoPhaseFind(p)
          \/ \E e \in Errors : TwoPhaseFindFails(p, e)
          \/ TwoPhaseAllocate(p)
          \/ \E e \in Errors : TwoPhaseAllocateFails(p, e)
          \/ TwoPhaseSendStatus(p)
          \/ \E e \in ResErrors : TwoPhaseSendStatusThrows(p, e)
          \/ Return(p)

SpecTwoPhase == InitTwoPhase /\ [][NextTwoPhase]_vars

\* ----------------------------------------------------------------- claims
Assigned(t) == t.k = "int"

\* The blocks of course c in store s that carry a _trackingId carry
\* pairwise-distinct ones.
DistinctIn(s, c) ==
    \A i, j \in BlockIds(s, c) :
        i # j /\ Assigned(s[i].tid) /\ Assigned(s[j].tid) => s[i].tid # s[j].tid

\* Every block of course c in store s carries an id >= 1.
AllNumbered(s, c) ==
    \A i \in BlockIds(s, c) : Assigned(s[i].tid) /\ s[i].tid.v >= 1

Max(S) == CHOOSE x \in S : \A y \in S : y <= x

\* The ids the documents of course c carry in store s.
IdsOfCourse(s, c) == {s[i].tid.v : i \in {j \in CourseIds(s, c) : Assigned(s[j].tid)}}

\* What max + 1 is for course c in store s, 1 when no document carries an id.
MaxPlusOne(s, c) ==
    IF IdsOfCourse(s, c) = {} THEN Integer(1) ELSE Integer(Max(IdsOfCourse(s, c)) + 1)

\* The position of document i in listing l.
PositionIn(l, i) == CHOOSE n \in DOMAIN l : l[n] = i

InInsert(p) == pc[p] \in {"ins_find", "ins_ret", "ins_failed"}

\* C1: when resetCourseTrackingIds has resolved, with nothing else running,
\* the blocks of the course carry exactly the ids 1..N, N the number of its
\* blocks, and a block that sorted lower before the call (a smaller id, or
\* none) carries the smaller id.
C1_ResetIsDenseAndOrdered ==
    \A p \in Procs :
        pc[p] = "rst_ok" =>
            LET ids == BlockIds(store, course[p])
            IN /\ {store[i].tid : i \in ids}
                    = {Integer(n) : n \in 1..Cardinality(ids)}
               /\ \A i, j \in ids :
                      KeyLess(before[p][i].tid, before[p][j].tid)
                          => store[i].tid.v < store[j].tid.v

\* A reset has resolved on three blocks whose ids had a gap and were not in
\* insertion order: the block that held 2 now holds 3, the one that held 0
\* holds 2, the one that held none holds 1.
C1_Witness ==
    \E p \in Procs :
        /\ pc[p] = "rst_ok"
        /\ BlockIds(store, course[p]) = {1, 2, 3}
        /\ before[p][1].tid = Integer(2) /\ store[1].tid = Integer(3)
        /\ before[p][2].tid = Integer(0) /\ store[2].tid = Integer(2)
        /\ before[p][3].tid = Undefined /\ store[3].tid = Integer(1)

\* C2: while resetCourseTrackingIds runs alone on a course whose blocks
\* began with pairwise-distinct ids, the store never holds two blocks of the
\* course with the same id, whichever updates have landed so far.  Stated
\* for the courses whose blocks all began with an id >= 1, where it fails
\* already.
C2_NoDuplicateDuringReset ==
    \A p \in Procs :
        /\ pc[p] = "rst_wait"
        /\ AllNumbered(before[p], course[p])
        /\ DistinctIn(before[p], course[p])
        => DistinctIn(store, course[p])

\* C3: with one operation at a time, a store whose courses hold no duplicate
\* id never steps to a store where some course does.  Stated for the stores
\* whose blocks all carry an id >= 1, where it fails already.
C3_DistinctPreserved ==
    [][(\A c \in Courses : AllNumbered(store, c) /\ DistinctIn(store, c))
          => (\A c \in Courses : DistinctIn(store', c))]_vars

\* C4: on courses that start with no block and receive only blocks without a
\* _trackingId, one at a time, the k-th block of a course carries id k, and
\* a block the hook has just returned carries the next one.
C4_SequentialAllocation ==
    /\ \A c \in Courses : \A i \in BlockIds(store, c) :
           store[i].tid = Integer(Cardinality({j \in BlockIds(store, c) : j <= i}))
    /\ \A p \in Procs :
           pc[p] = "ins_ret" =>
               data[p].tid
                   = Integer(Cardinality(BlockIds(store, data[p].course)) + 1)

\* C5: a block handed to insertTrackingId with an integer id >= 0 comes back
\* as it was, with no find and no update issued and the store untouched.
C5_ValidIdKept ==
    \A p \in Procs :
        /\ InInsert(p)
        /\ arg[p].type = "block"
        /\ arg[p].tid.k = "int" /\ arg[p].tid.v >= 0
        => /\ pc[p] = "ins_ret"
           /\ data[p] = arg[p]
           /\ nfind[p] = 0 /\ nupdate[p] = 0
           /\ store = before[p]

\* A block carrying id 0 has been through the hook, in a course whose
\* highest id is larger.
C5_Witness ==
    \E p \in Procs :
        /\ pc[p] = "ins_ret"
        /\ arg[p].type = "block" /\ arg[p].tid = Integer(0)
        /\ data[p].tid = Integer(0)
        /\ IdsOfCourse(store, arg[p].course) # {}

\* C6: data whose type is not 'block' comes back from insertTrackingId as it
\* was, whatever its id, with no find and no update issued.
C6_NonBlockUntouched ==
    \A p \in Procs :
        InInsert(p) /\ arg[p].type # "block"
        => /\ pc[p] = "ins_ret"
           /\ data[p] = arg[p]
           /\ nfind[p] = 0 /\ nupdate[p] = 0
           /\ store = before[p]

\* A component without an id has been through the hook.
C6_Witness ==
    \E p \in Procs :
        /\ pc[p] = "ins_ret"
        /\ arg[p].type = "component" /\ arg[p].tid = Undefined
        /\ data[p].tid = Undefined

\* C7: when insertTrackingId has allocated (it issued its find), the id it
\* set is the largest id stored in the course plus 1, and 1 when no document
\* of the course carries an id.
C7_MaxPlusOne ==
    \A p \in Procs :
        pc[p] = "ins_ret" /\ nfind[p] = 1
            => data[p].tid = MaxPlusOne(store, data[p].course)

\* A block was allocated id 1 in a course whose highest stored id is 0.
C7_Witness ==
    \E p \in Procs :
        /\ pc[p] = "ins_ret" /\ nfind[p] = 1
        /\ IdsOfCourse(store, data[p].course) = {0}
        /\ data[p].tid = Integer(1)

\* C8: a block handed to insertTrackingId with anything but an integer >= 0
\* as its id (none, null, a fraction, a string, -1) is allocated max + 1.
C8_InvalidIdReallocated ==
    \A p \in Procs :
        /\ pc[p] = "ins_ret"
        /\ arg[p].type = "block"
        /\ ~(arg[p].tid.k = "int" /\ arg[p].tid.v >= 0)
        => /\ nfind[p] = 1
           /\ data[p].tid = MaxPlusOne(store, data[p].course)

\* C9: when the listing of resetCourseTrackingIds rejects, the call rejects
\* with that error, no update was issued and the store is as it was.
C9_ListingFailureChangesNothing ==
    \A p \in Procs :
        /\ thrown[p] # <<>>
        /\ course[p] # "none"
        /\ thrown[p][1].call = "find"
        => /\ pc[p] = "rst_failed"
           /\ err[p] = thrown[p][1].error
           /\ nupdate[p] = 0 /\ pending[p] = {}
           /\ store = before[p]

\* The listing rejected for a course that has blocks with ids to renumber.
C9_Witness ==
    \E p \in Procs :
        /\ pc[p] = "rst_failed"
        /\ thrown[p] = <<Thrown("find", "E2")>>
        /\ \E i \in BlockIds(store, course[p]) : store[i].tid = Integer(2)

\* C10: once an update of resetCourseTrackingIds has rejected, the call has
\* rejected with the first error an update threw, and every block of the
\* course holds the id it had before the call or the id this call computed
\* for it; no other document has changed.
C10_PartialFailure ==
    \A p \in Procs :
        /\ thrown[p] # <<>>
        /\ thrown[p][1].call = "update"
        => /\ pc[p] = "rst_failed"
           /\ err[p] = thrown[p][1].error
           /\ DOMAIN store = DOMAIN before[p]
           /\ \A i \in DOMAIN store :
                  IF i \in BlockIds(store, course[p])
                  THEN \/ store[i] = before[p][i]
                       \/ store[i] = [before[p][i] EXCEPT
                              !.tid = Integer(PositionIn(blocks[p], i))]
                  ELSE store[i] = before[p][i]

\* Of three updates one landed and two rejected, with different errors: one
\* block holds its new id, another still its old one.
C10_Witness ==
    \E p \in Procs :
        /\ pc[p] = "rst_failed" /\ pending[p] = {}
        /\ Len(thrown[p]) = 2
        /\ thrown[p][1] = Thrown("update", "E2")
        /\ thrown[p][2] = Thrown("update", "E1")
        /\ err[p] = "E2"
        /\ \E i, j \in BlockIds(store, course[p]) :
              /\ store[i].tid # before[p][i].tid
              /\ store[j].tid = before[p][j].tid
              /\ store[j].tid # Integer(PositionIn(blocks[p], j))

\* The blocks of course c in store s carry exactly the ids 1..N, N their number.
Dense(s, c) ==
    /\ \A i \in BlockIds(s, c) : Assigned(s[i].tid)
    /\ DistinctIn(s, c)
    /\ {s[i].tid.v : i \in BlockIds(s, c)} = 1..Cardinality(BlockIds(s, c))

\* C11: when a reset failed at some of its updates and the caller's next
\* reset of the course, run after those updates settled, has resolved, the
\* blocks of the course carry exactly 1..N; and a reset that resolves on a
\* course whose ids were 1..N already has left every block's id as it was.
C11_RetryConverges ==
    /\ \A q \in SeqProcs, p \in Procs \ SeqProcs :
           pc[q] = "rst_failed" /\ pc[p] = "rst_ok" => Dense(store, course[p])
    /\ \A p \in Procs :
           pc[p] = "rst_ok" /\ Dense(before[p], course[p])
               => \A i \in BlockIds(store, course[p]) :
                      store[i].tid = before[p][i].tid

\* A reset of three blocks without duplicate ids failed after some of its
\* updates had landed, leaving two blocks with the same id; the retry has
\* resolved and changed the store.
C11_Witness ==
    \E q \in SeqProcs, p \in Procs \ SeqProcs :
        /\ pc[q] = "rst_failed" /\ pc[p] = "rst_ok"
        /\ Cardinality(BlockIds(store, course[p])) = 3
        /\ DistinctIn(before[q], course[q])
        /\ before[p] # before[q]
        /\ ~DistinctIn(before[p], course[p])
        /\ store # before[p]

\* C12: when the listing of resetCourseTrackingIds has resolved for a course
\* that has no block, the call has resolved: it issued no update, rejected
\* with nothing, logged RESET and left the store as it was.
C12_EmptyCourseNoUpdate ==
    \A p \in Procs :
        /\ course[p] # "none"
        /\ pc[p] # "rst_find"
        /\ thrown[p] = <<>>
        /\ BlockIds(before[p], course[p]) = {}
        => /\ pc[p] = "rst_ok"
           /\ nfind[p] = 1 /\ nupdate[p] = 0
           /\ err[p] = NoError
           /\ logged[p]
           /\ store = before[p]

\* A reset has resolved for a course that holds a component carrying an id
\* but no block, while another course has a block.
C12_Witness ==
    \E p \in Procs :
        /\ pc[p] = "rst_ok" /\ nupdate[p] = 0
        /\ BlockIds(store, course[p]) = {}
        /\ \E i \in CourseIds(store, course[p]) : Assigned(store[i].tid)
        /\ \E c \in Courses : BlockIds(store, c) # {}

\* The documents of course c in store s, and nothing else.
OnlyCourse(s, c) == SelectSeq(s, LAMBDA d : d.course = c)

\* C13: with operations on two courses interleaved, the id insertTrackingId
\* sets on a block is max + 1 computed from the documents of the block's own
\* course alone, and a step changes a stored document only when it is an
\* update of a reset of that document's course.
C13_CoursesDoNotInteract ==
    [][/\ \A p \in Procs :
              pc[p] = "ins_find" /\ pc'[p] = "ins_ret"
                  => data'[p].tid
                       = MaxPlusOne(OnlyCourse(store, data[p].course), data[p].course)
       /\ \A i \in DOMAIN store :
              /\ i \in DOMAIN store'
              /\ store'[i] # store[i]
                    => \E p \in Procs :
                          /\ pc[p] = "rst_wait"
                          /\ course[p] = store[i].course
                          /\ \E n \in pending[p] \ pending'[p] : blocks[p][n] = i
      ]_vars

\* A block was allocated its id while a reset of the other course, whose
\* highest id is not below that id, had changed that course's documents.
C13_Witness ==
    \E p, q \in Procs :
        /\ pc[p] = "ins_ret" /\ nfind[p] = 1
        /\ pc[q] \in {"rst_wait", "rst_ok"}
        /\ course[q] # data[p].course
        /\ OnlyCourse(store, course[q]) # OnlyCourse(before[p], course[q])
        /\ OnlyCourse(store, data[p].course) = OnlyCourse(before[q], data[p].course)
        /\ IdsOfCourse(store, course[q]) # {}
        /\ Max(IdsOfCourse(store, course[q])) >= data[p].tid.v

\* C14: a request to resetTrackingHandler makes at most one call on res and
\* next, and exactly one once the awaited reset has settled and the handler
\* returned: sendStatus(204), after every update landed, when neither the
\* listing nor an update threw; next with the first error thrown otherwise.
C14_OneResponse ==
    \A p \in Procs :
        req[p] # "none" =>
            /\ Len(res[p]) <= 1
            /\ pc[p] \in {"hdl_sent", "hdl_next"} => Len(res[p]) = 1
            /\ pc[p] \in {"rst_find", "rst_wait"} => res[p] = <<>>
            /\ res[p] # <<>> /\ thrown[p] = <<>>
                   => /\ res[p][1].call = "sendStatus" /\ res[p][1].arg = 204
                      /\ pending[p] = {} /\ logged[p]
            /\ res[p] # <<>> /\ thrown[p] # <<>>
                   => /\ res[p][1].call = "next"
                      /\ res[p][1].arg = thrown[p][1].error
            /\ thrown[p] # <<>> => pc[p] \in {"rst_failed", "hdl_next"}

\* C15: when two insertTrackingId calls for blocks of the same course have
\* both run their find and nothing was written since either call began, both
\* blocks carry the same id, max + 1 of the course; and an allocated id that
\* the course already holds got there by a write made after the call began.
C15_SameMaximumSameId ==
    /\ \A p, q \in Procs :
           /\ p # q
           /\ pc[p] = "ins_ret" /\ nfind[p] = 1
           /\ pc[q] = "ins_ret" /\ nfind[q] = 1
           /\ data[p].course = data[q].course
           /\ store = before[p] /\ store = before[q]
           => /\ data[p].tid = data[q].tid
              /\ data[p].tid = MaxPlusOne(store, data[p].course)
    /\ \A p \in Procs :
           /\ pc[p] = "ins_ret" /\ nfind[p] = 1
           /\ data[p].tid.v \in IdsOfCourse(store, data[p].course)
           => Len(store) > Len(before[p])

\* Both insertions are over: after a block with id 1 the course holds two
\* blocks with id 2.
C15_Witness ==
    /\ \A p \in Procs : Idle(p)
    /\ store = <<Doc("block", "c1", Integer(1)), Doc("block", "c1", Integer(2)),
                 Doc("block", "c1", Integer(2))>>

\* The ids the counter variant has allocated for course c: those of the
\* blocks written and those of the blocks the hook has returned.
Allocated(c) ==
    {<<"stored", i>> : i \in {j \in BlockIds(store, c) : Assigned(store[j].tid)}}
        \cup {<<"returned", p>> : p \in {q \in Procs :
                  /\ pc[q] = "ins_ret" /\ data[q].course = c
                  /\ Assigned(data[q].tid)}}
IdOf(a) == IF a[1] = "stored" THEN store[a[2]].tid.v ELSE data[a[2]].tid.v

\* C16: with the counter variant and any number of insertions in flight, the
\* ids allocated to the blocks of a course are pairwise distinct and none
\* exceeds the course's counter, and no step lowers a counter.
C16_CounterIdsDistinct ==
    /\ [](\A c \in Courses :
              /\ \A a, b \in Allocated(c) : a # b => IdOf(a) # IdOf(b)
              /\ \A a \in Allocated(c) : IdOf(a) <= latest[c])
    /\ [][\A c \in Courses : latest'[c] >= latest[c]]_vars

\* Three blocks of one course were allocated ids by calls in flight
\* together: the block written first carries a higher id than the second.
C16_Witness ==
    /\ Len(store) = 3
    /\ \A i \in 1..3 : store[i].course = "c1" /\ Assigned(store[i].tid)
    /\ store[1].tid.v > store[2].tid.v
    /\ store[3].tid.v > latest["c2"]

\* The blocks of course c in store s have pairwise-different sort keys, so
\* that their listing has one possible order.
KeysDistinct(s, c) ==
    \A i, j \in BlockIds(s, c) :
        i # j => KeyLess(s[i].tid, s[j].tid) \/ KeyLess(s[j].tid, s[i].tid)

\* C17: two resets of the same course may be in flight together; when both
\* have resolved, every block of the course holds the id one of the two
\* calls computed for it, whichever of its two updates landed last, so the
\* ids lie in 1..N without having to be all different.
C17_ConcurrentResetsLastWriteWins ==
    \A p, q \in Procs :
        /\ p # q
        /\ pc[p] = "rst_ok" /\ pc[q] = "rst_ok"
        /\ course[p] = course[q]
        => \A i \in BlockIds(store, course[p]) :
               /\ Assigned(store[i].tid)
               /\ store[i].tid.v \in {PositionIn(blocks[p], i), PositionIn(blocks[q], i)}
               /\ store[i].tid.v \in 1..Cardinality(BlockIds(store, course[p]))

\* Both resets have resolved and two blocks of the course hold the same id.
\* The blocks began with different sort keys, so the second call, whose
\* listing differs from the first's, listed them after some but not all of
\* the first call's updates had landed.
C17_Witness ==
    \E p, q \in Procs :
        /\ p # q
        /\ pc[p] = "rst_ok" /\ pc[q] = "rst_ok"
        /\ course[p] = course[q]
        /\ KeysDistinct(before[p], course[p])
        /\ blocks[p] \in ResetQuery(before[p], course[p])
        /\ blocks[q] # blocks[p]
        /\ ~DistinctIn(store, course[p])
        /\ ~Dense(store, course[p])

\* C18: the listing of resetCourseTrackingIds, and with it the id each block
\* is given, is determined by the store: blocks are listed in ascending
\* order of _trackingId, those without one first, and blocks with equal keys
\* in the order of their _id.
C18_ResetDeterministic ==
    \A p \in Procs :
        course[p] # "none" =>
            \A n, m \in DOMAIN blocks[p] :
                n < m =>
                    LET a == before[p][blocks[p][n]].tid
                        b == before[p][blocks[p][m]].tid
                    IN /\ KeyLeq(a, b)
                       /\ KeyLeq(b, a) => blocks[p][n] < blocks[p][m]

\* C19: when the two-phase reset has answered 204, every block of the course
\* in the store carries a _trackingId and the stored ids are exactly 1..N.
C19_TwoPhaseResetDense ==
    \A p \in Procs :
        pc[p] = "hdl_sent" /\ req[p] # "none" => Dense(store, course[p])

\* The allocator and the renumberer in flight together on one course whose
\* blocks start with pairwise-different ids >= 1: the first invocation
\* inserts blocks without a _trackingId, the second resets the course.
MixedDocs == {Doc("block", "c1", Integer(n)) : n \in 1..(MaxTid + 1)}
                 \cup {Doc("component", "c1", tid) : tid \in StoredTids}

InitMixed == InitWith({s \in SeqsUpTo(MixedDocs, MaxInit) : DistinctIn(s, "c1")})

NextMixed ==
    \/ \E p \in SeqProcs :
          \/ \E tid \in FreshTids : insertTrackingId(p, Doc("block", "c1", tid))
          \/ InsertFind(p)
          \/ ContentInsert(p)
    \/ \E p \in Both \ SeqProcs :
          \/ resetCourseTrackingIds(p, "c1")
          \/ ResetFind(p)
          \/ \E n \in pending[p] : ContentUpdate(p, n)
          \/ Return(p)

SpecMixed == InitMixed /\ [][NextMixed]_vars

\* C20: with an insertion and a reset of the same course interleaved, on a
\* course whose blocks began with pairwise-different ids >= 1, the id the
\* allocator sets is larger than every id the reset writes, and when both
\* are over the blocks of the course carry pairwise-different ids.
C20_InsertDuringResetDistinct ==
    /\ \A p, q \in Procs :
           /\ pc[p] = "ins_ret" /\ nfind[p] = 1
           /\ pc[q] \in {"rst_wait", "rst_ok"}
           => data[p].tid.v > Len(blocks[q])
    /\ (\A p \in Procs : Idle(p)) =>
           /\ AllNumbered(store, "c1")
           /\ DistinctIn(store, "c1")

\* The reset has resolved and the block inserted meanwhile, which its
\* listing did not have, is written: the ids are different but not 1..N.
C20_Witness ==
    \E q \in Procs :
        /\ pc[q] = "rst_ok"
        /\ \A p \in Procs \ {q} : Idle(p)
        /\ Len(blocks[q]) = 2
        /\ Cardinality(BlockIds(store, "c1")) = 3
        /\ store # before[q]
        /\ DistinctIn(store, "c1")
        /\ ~Dense(store, "c1")

====
